---- MODULE Spec2Model ----
(***************************************************************************)
(* Ayyimullah Shareef API: the Month -> Event -> EventDetail store and its *)
(* CRUD functions (src/api/crud.py, duplicated in src/app.py), the token   *)
(* service and the two authentication paths (src/app.py), and the admin    *)
(* HTTP routes (src/api/routers/admin.py).                                 *)
(*                                                                         *)
(* The store is the default one of src/app.py:27, SQLite, opened without   *)
(* PRAGMA foreign_keys: ForeignKey columns are declared but not enforced,  *)
(* and an INTEGER PRIMARY KEY is allocated as max(id) + 1.                 *)
(***************************************************************************)
EXTENDS Integers, Sequences, FiniteSets, Bags, TLC

VARIABLES months, events, details, users, now, issued, sessions, last

vars == <<months, events, details, users, now, issued, sessions, last>>

store == <<months, events, details>>

-----------------------------------------------------------------------------
(* Bounds of the model. *)

MaxMonths == 1
MaxEvents == 2
MaxDetails == 2
MaxTreeEvents == 2
MaxTreeDetails == 1
TicksPerSecond == 2
MaxFineTicks == 3
MaxIssued == 1
MaxExp == 2
MaxSessions == 2
MaxRequests == 2
MaxLookups == 1

(* Program constants. *)
ACCESS_TOKEN_EXPIRE_MINUTES == 30
DefaultExpireMinutes == 15
SecondsPerMinute == 60

(* Field values the requests are drawn from. *)
NamePairs == { <<"muharram_bn", "Muharram">>, <<"safar_bn", "Safar">> }
StoreDays == { <<"1">> }
Texts == { "t" }

MonthIds == 1..MaxMonths
EventIds == 1..MaxEvents
DetailIds == 1..MaxDetails

-----------------------------------------------------------------------------
(* The tables. A row is a record; a table is the set of its rows. *)

DB == [months |-> months, events |-> events, details |-> details]

EmptyDB == [months |-> {}, events |-> {}, details |-> {}]

Ids(table) == { r.id : r \in table }

SetMax(S) == CHOOSE x \in S : \A y \in S : y <= x

(* SQLite rowid allocation for an INTEGER PRIMARY KEY column. *)
NextId(table) == IF table = {} THEN 1 ELSE SetMax(Ids(table)) + 1

(* query(...).filter(Model.id == id).first(): the set holding the row, or {} for None. *)
ById(table, id) == { r \in table : r.id = id }

-----------------------------------------------------------------------------
(* crud.py: create_month and create_event when no other request runs      *)
(* beside them, as at startup; the store they leave is the one their steps  *)
(* below leave when nothing interleaves.                                    *)

RECURSIVE add_details(_, _, _)
add_details(table, event_id, texts) ==
    IF texts = <<>> THEN table
    ELSE add_details(table \cup {[id |-> NextId(table), event_id |-> event_id,
                                  detail |-> Head(texts)]},
                     event_id, Tail(texts))

(* The loop of create_month over month.events from the i-th event on.     *)
(* Commit 2i inserts the i-th event, commit 2i+1 its details; failAt is   *)
(* the number of the commit the call does not reach because an exception  *)
(* ends it there (0: it reaches them all).                                 *)
RECURSIVE create_month_events(_, _, _, _, _)
create_month_events(db, month_id, evs, i, failAt) ==
    IF i > Len(evs) THEN [db |-> db, failed |-> FALSE]
    ELSE IF failAt = 2 * i THEN [db |-> db, failed |-> TRUE]
    ELSE LET eid == NextId(db.events)
             db1 == [db EXCEPT !.events = @ \cup
                        {[id |-> eid, month_id |-> month_id, day |-> evs[i].day]}]
         IN  IF failAt = 2 * i + 1 THEN [db |-> db1, failed |-> TRUE]
             ELSE create_month_events(
                      [db1 EXCEPT !.details = add_details(@, eid, evs[i].details)],
                      month_id, evs, i + 1, failAt)

create_month(db, month, failAt) ==
    IF failAt = 1 THEN [db |-> db, ret |-> {}, failed |-> TRUE]
    ELSE LET mid == NextId(db.months)
             row == [id |-> mid, month_bn |-> month.month_bn, month_en |-> month.month_en]
             r == create_month_events([db EXCEPT !.months = @ \cup {row}],
                                      mid, month.events, 1, failAt)
         IN  [db |-> r.db, ret |-> IF r.failed THEN {} ELSE {row}, failed |-> r.failed]

(* create_event called alone. *)
create_event(db, month_id, event) ==
    LET eid == NextId(db.events)
        row == [id |-> eid, month_id |-> month_id, day |-> event.day]
    IN  [db |-> [db EXCEPT !.events = @ \cup {row},
                           !.details = add_details(@, eid, event.details)],
         ret |-> {row}]

-----------------------------------------------------------------------------
(* The day lookup. A string is a sequence of characters; "bn0" .. "bn9"    *)
(* name the ten Bengali digit glyphs of the table in to_bangla_digits.     *)

eng_to_bn ==
    ("0" :> "bn0") @@ ("1" :> "bn1") @@ ("2" :> "bn2") @@ ("3" :> "bn3") @@
    ("4" :> "bn4") @@ ("5" :> "bn5") @@ ("6" :> "bn6") @@ ("7" :> "bn7") @@
    ("8" :> "bn8") @@ ("9" :> "bn9")

(* A translation that also maps the Bengali glyphs back to 0-9. *)
to_bangla_digits_both_ways(number_str) ==
    [i \in 1..Len(number_str) |->
        IF number_str[i] \in DOMAIN eng_to_bn THEN eng_to_bn[number_str[i]]
        ELSE IF \E c \in DOMAIN eng_to_bn : eng_to_bn[c] = number_str[i]
             THEN CHOOSE c \in DOMAIN eng_to_bn : eng_to_bn[c] = number_str[i]
             ELSE number_str[i]]

to_bangla_digits(number_str) ==
    [i \in 1..Len(number_str) |->
        IF number_str[i] \in DOMAIN eng_to_bn THEN eng_to_bn[number_str[i]]
        ELSE number_str[i]]

(* query(Event).filter(Event.month_id == month_id, Event.day == day).all() *)
events_on(db, month_id, day) ==
    { e \in db.events : e.month_id = month_id /\ e.day = day }

-----------------------------------------------------------------------------
(* Time. The clock counts ticks of 1/TicksPerSecond second, as             *)
(* datetime.utcnow() reads below the second; timegm(utctimetuple()) drops  *)
(* the fraction.                                                           *)

MinuteTicks == SecondsPerMinute * TicksPerSecond

timegm(t) == t \div TicksPerSecond

(* timedelta(minutes=m), in ticks. *)
timedelta(m) == m * MinuteTicks

-----------------------------------------------------------------------------
(* Strings that carry a token: a cookie value, the parameter of an          *)
(* Authorization header. chars is the text before the token part: "Bearer " *)
(* repeated `prefixes` times; body is "" (nothing), "garbage" (no compact   *)
(* JWS) or "jwt", a compact JWS whose signature verifies under SECRET_KEY   *)
(* and HS256 iff sig, with the claims sub and exp where has_sub, has_exp.   *)

Str(prefixes, body, sig, has_sub, sub, has_exp, exp) ==
    [prefixes |-> prefixes, body |-> body, sig |-> sig,
     has_sub |-> has_sub, sub |-> sub, has_exp |-> has_exp, exp |-> exp]

EmptyStr == Str(0, "", FALSE, FALSE, "", FALSE, 0)

(* str.startswith("Bearer ") *)
startswith_bearer(s) == s.prefixes > 0

(* token[7:], of a string that starts with "Bearer " *)
strip_bearer(s) == [s EXCEPT !.prefixes = @ - 1]

(* not token *)
is_empty(s) == s.prefixes = 0 /\ s.body = ""

(* jwt.encode(to_encode, SECRET_KEY, algorithm=ALGORITHM): a datetime exp   *)
(* becomes timegm(exp.utctimetuple()).                                      *)
jwt_encode(sub, expire) == Str(0, "jwt", TRUE, TRUE, sub, TRUE, timegm(expire))

(* jwt.decode(token, SECRET_KEY, algorithms=[ALGORITHM]) at time t: ok, or  *)
(* a JWTError for a string that is no compact JWS, a signature that does    *)
(* not verify, or exp < timegm(utcnow().utctimetuple()).                    *)
jwt_decode(token, t) ==
    IF token.prefixes # 0 \/ token.body # "jwt" THEN [ok |-> FALSE, payload |-> EmptyStr]
    ELSE IF ~token.sig THEN [ok |-> FALSE, payload |-> EmptyStr]
    ELSE IF token.has_exp /\ token.exp < timegm(t) THEN [ok |-> FALSE, payload |-> EmptyStr]
    ELSE [ok |-> TRUE, payload |-> token]

(* expires_delta in ticks, 0 for None. *)
create_access_token(sub, expires_delta, t) ==
    LET expire == IF expires_delta # 0 THEN t + expires_delta
                  ELSE t + timedelta(DefaultExpireMinutes)
    IN  jwt_encode(sub, expire)

(* db.query(User).filter(User.username == username).first() *)
get_user_by_username(table, username) == { u \in table : u.username = username }

(* pwd_context.hash: the hash keeps the salt and stands for the password. *)
get_password_hash(password, salt) == [salt |-> salt, pw |-> password]

verify_password(plain_password, hashed_password) == hashed_password.pw = plain_password

(* login_for_access_token without the verification of the password. *)
login_for_access_token_no_verify(username, password, table, t) ==
    LET user == get_user_by_username(table, username)
    IN  IF user = {}
        THEN [status |-> 401, access_token |-> {}]
        ELSE [status |-> 200,
              access_token |-> { create_access_token(u.username,
                                     timedelta(ACCESS_TOKEN_EXPIRE_MINUTES), t) : u \in user }]

(* login_for_access_token: 401, or a token of ACCESS_TOKEN_EXPIRE_MINUTES. *)
login_for_access_token(username, password, table, t) ==
    LET user == get_user_by_username(table, username)
    IN  IF user = {} \/ \A u \in user : ~verify_password(password, u.hashed_password)
        THEN [status |-> 401, access_token |-> {}]
        ELSE [status |-> 200,
              access_token |-> { create_access_token(u.username,
                                     timedelta(ACCESS_TOKEN_EXPIRE_MINUTES), t) : u \in user }]

(* login_submit: the login page again, or a redirect that sets the cookie   *)
(* access_token to "Bearer " + a token of the default lifetime.             *)
login_submit(username, password, table, t) ==
    LET user == get_user_by_username(table, username)
    IN  IF user = {} \/ \A u \in user : ~verify_password(password, u.hashed_password)
        THEN [status |-> 200, access_token |-> {}]
        ELSE [status |-> 303,
              access_token |-> { create_access_token(u.username, 0, t) : u \in user }]

-----------------------------------------------------------------------------
(* The two authentication paths. *)

Rejected == [status |-> 401, www_authenticate |-> "Bearer", user |-> {}]

Authenticated(user) == [status |-> 200, www_authenticate |-> "", user |-> user]

(* get_current_user without the test for a User row. *)
get_current_user_no_user_check(token, table, t) ==
    LET d == jwt_decode(token, t)
    IN  IF ~d.ok THEN Rejected
        ELSE IF ~d.payload.has_sub THEN Rejected
        ELSE Authenticated({ [id |-> 0, username |-> d.payload.sub,
                              hashed_password |-> get_password_hash("", 0)] })

get_current_user(token, table, t) ==
    LET d == jwt_decode(token, t)
    IN  IF ~d.ok THEN Rejected
        ELSE IF ~d.payload.has_sub THEN Rejected
        ELSE LET user == get_user_by_username(table, d.payload.sub)
             IN  IF user = {} THEN Rejected ELSE Authenticated(user)

(* An Authorization header: absent, or "<scheme> <param>". *)
Header(present, scheme, param) == [present |-> present, scheme |-> scheme, param |-> param]

NoHeader == Header(FALSE, "", EmptyStr)

(* OAuth2PasswordBearer(tokenUrl="token"): 401 unless the scheme is bearer. *)
oauth2_scheme(header) ==
    IF ~header.present \/ header.scheme # "bearer"
    THEN [ok |-> FALSE, param |-> EmptyStr]
    ELSE [ok |-> TRUE, param |-> header.param]

(* A router whose dependency lets every request through. *)
admin_dependency_open(header, table, t) ==
    Authenticated({})

(* dependencies=[Depends(get_current_user)] of the admin router. *)
admin_dependency(header, table, t) ==
    LET tok == oauth2_scheme(header)
    IN  IF ~tok.ok THEN Rejected ELSE get_current_user(tok.param, table, t)

(* A cookie: absent, or its value. *)
Cookie(present, value) == [present |-> present, value |-> value]

NoCookie == Cookie(FALSE, EmptyStr)

(* The try block of get_current_user_from_cookie. *)
cookie_try(token0, table, t) ==
    LET token == IF startswith_bearer(token0) THEN strip_bearer(token0) ELSE token0
        d == jwt_decode(token, t)
    IN  IF ~d.ok THEN [raised |-> TRUE, user |-> {}]
        ELSE IF d.payload.has_sub /\ d.payload.sub # ""
             THEN [raised |-> FALSE, user |-> get_user_by_username(table, d.payload.sub)]
             ELSE [raised |-> FALSE, user |-> {}]

(* The function without its except clause. *)
get_current_user_from_cookie_no_except(cookie, table, t) ==
    IF ~cookie.present \/ is_empty(cookie.value) THEN [raised |-> FALSE, user |-> {}]
    ELSE cookie_try(cookie.value, table, t)

get_current_user_from_cookie(cookie, table, t) ==
    IF ~cookie.present \/ is_empty(cookie.value) THEN [raised |-> FALSE, user |-> {}]
    ELSE LET r == cookie_try(cookie.value, table, t)
         IN  IF r.raised THEN [raised |-> FALSE, user |-> {}] ELSE r

(* dashboard and month_detail_dashboard, up to the test for a user. *)
dashboard(cookie, table, t) ==
    LET r == get_current_user_from_cookie(cookie, table, t)
    IN  IF r.raised THEN [raised |-> TRUE, user |-> {}, response |-> "error"]
        ELSE IF r.user = {} THEN [raised |-> FALSE, user |-> {}, response |-> "redirect:/login"]
        ELSE [raised |-> FALSE, user |-> r.user, response |-> "page"]

-----------------------------------------------------------------------------
(* The requests' bodies. *)

SeqsUpTo(S, n) == UNION { [1..k -> S] : k \in 0..n }

EventInputs == [day : StoreDays, details : SeqsUpTo(Texts, MaxTreeDetails)]

MonthBases == { [month_bn |-> p[1], month_en |-> p[2]] : p \in NamePairs }

(* The months created carry the first pair of names; update_month writes    *)
(* either pair.                                                             *)
NewNames == { <<"muharram_bn", "Muharram">> }

MonthInputs ==
    { [month_bn |-> p[1], month_en |-> p[2], events |-> evs] :
        p \in NewNames, evs \in SeqsUpTo(EventInputs, MaxTreeEvents) }

(* The tables stay within the bounds of the model. *)
InBounds(db) ==
    /\ Ids(db.months) \subseteq MonthIds
    /\ Ids(db.events) \subseteq EventIds
    /\ Ids(db.details) \subseteq DetailIds

Commit(db) ==
    /\ months' = db.months
    /\ events' = db.events
    /\ details' = db.details

-----------------------------------------------------------------------------
(* Requests in flight. Each request runs in its own session (get_db), on a  *)
(* thread of the pool; every query and every commit of a crud function is a *)
(* step, and the steps of different requests interleave. sessions is the    *)
(* bag of the sessions open. A session holds the function called (op), the  *)
(* copy called (impl: "api" for src/api/crud.py, "app" for src/app.py), its *)
(* position (pc), its arguments (arg, body), whether it was called through  *)
(* a route and with what credentials, and its locals. caller names the      *)
(* function that called op and goes on when op returns; k is the month of   *)
(* the seed calendar a startup is at. Two fields keep what a claim speaks   *)
(* of and the code does not hold: seen, the events tables the store has     *)
(* held since the first query of a day lookup that goes on to a second, and *)
(* had_admin, whether the admin's row was there when a startup began.       *)

NoCred == [header |-> NoHeader, cookie |-> NoCookie]

(* file.json: not found, or a document with its calendar of months. *)
SeedFile(found, calendar) == [found |-> found, calendar |-> calendar]

NoFile == SeedFile(FALSE, <<>>)

NoBody == [month_bn |-> "", month_en |-> "", events |-> <<>>, day |-> <<>>,
           details |-> <<>>, detail |-> "", username |-> "", password |-> "",
           file |-> NoFile]

MonthBody(month) ==
    [NoBody EXCEPT !.month_bn = month.month_bn, !.month_en = month.month_en]

MonthCreateBody(month) == [MonthBody(month) EXCEPT !.events = month.events]

EventCreateBody(event) == [NoBody EXCEPT !.day = event.day, !.details = event.details]

DetailBody(detail) == [NoBody EXCEPT !.detail = detail]

UserBody(username, password) ==
    [NoBody EXCEPT !.username = username, !.password = password]

FileBody(file) == [NoBody EXCEPT !.file = file]

NoRow == [id |-> 0, month_bn |-> "", month_en |-> ""]

Session(op, impl, pc, arg, body, route, cred) ==
    [op |-> op, impl |-> impl, pc |-> pc, arg |-> arg, body |-> body, route |-> route,
     cred |-> cred, i |-> 1, rid |-> 0, eid |-> 0, old |-> NoRow, evs |-> {},
     dets |-> {}, made |-> {}, found |-> FALSE, caller |-> "", k |-> 1,
     was_empty |-> FALSE, seen |-> {}, had_admin |-> FALSE]

NoSessions == EmptyBag

(* The sessions open: equal ones, of equal requests at the same position,   *)
(* count once here and as many times as there are in the bag.               *)
Busy == BagToSet(sessions)

Only(r) == SetToBag({r})

RECURSIVE Sum(_, _)
Sum(f, S) == IF S = {} THEN 0 ELSE LET x == CHOOSE y \in S : TRUE IN f[x] + Sum(f, S \ {x})

(* The rows a session has still to insert. *)
PendingMonths(r) == IF r.op = "create_month" /\ r.pc = "month" THEN 1 ELSE 0

PendingEvents(r) ==
    IF r.op = "create_month"
    THEN Len(r.body.events) - (r.i - 1) - (IF r.pc \in {"load_event", "details"} THEN 1 ELSE 0)
    ELSE IF r.op = "create_event" /\ r.pc = "event" THEN 1 ELSE 0

PendingDetails(r) ==
    IF r.op = "create_month"
    THEN Sum([k \in 1..Len(r.body.events) |-> Len(r.body.events[k].details)],
             { k \in 1..Len(r.body.events) : k >= r.i })
    ELSE IF r.op = "create_event" /\ r.pc \in {"event", "load_event", "details"}
         THEN Len(r.body.details)
    ELSE IF r.op = "add_detail" /\ r.pc = "commit" THEN 1 ELSE 0

(* The greatest id of a table, 0 for an empty one. *)
MaxId(table) == NextId(table) - 1

(* The tables stay within the bounds of the model whatever the sessions     *)
(* open, and r with them, go on to insert.                                  *)
Fits(r) ==
    /\ MaxId(months) + PendingMonths(r)
        + Sum([x \in Busy |-> CopiesIn(x, sessions) * PendingMonths(x)], Busy) <= MaxMonths
    /\ MaxId(events) + PendingEvents(r)
        + Sum([x \in Busy |-> CopiesIn(x, sessions) * PendingEvents(x)], Busy) <= MaxEvents
    /\ MaxId(details) + PendingDetails(r)
        + Sum([x \in Busy |-> CopiesIn(x, sessions) * PendingDetails(x)], Busy) <= MaxDetails

(* A session is opened for the request. *)
Start(r) ==
    /\ BagCardinality(sessions) < MaxSessions
    /\ Fits(r)
    /\ sessions' = sessions (+) Only(r)

(* What a request ended in: whether the id it addressed resolved (for       *)
(* create_event and add_detail: whether the parent was there at the         *)
(* insert), whether it raised, and the status of the response when the call *)
(* came through a route: a row serialises through the response_model to     *)
(* 200; None fails the response validation, and an exception is answered    *)
(* 500.                                                                     *)
Returned(r, found, failed, status) ==
    [route |-> r.route, cred |-> r.cred, found |-> found, failed |-> failed,
     status |-> status]

NoLast == Returned(Session("", "", "", 0, NoBody, FALSE, NoCred), FALSE, FALSE, 0)

respond(r, found, failed) ==
    IF ~r.route THEN 0
    ELSE IF failed THEN 500
    ELSE IF r.op \in {"delete_month", "update_month", "delete_event", "delete_detail"}
            /\ ~found THEN 500
    ELSE 200

(* What an operation on the users table ended in: create_user and          *)
(* change_admin_password, whether an exception was raised in it, and the    *)
(* token endpoint, its status and the token it issued.                      *)
UserOp(op, username, password, status, access_token, failed) ==
    [op |-> op, username |-> username, password |-> password, status |-> status,
     access_token |-> access_token, failed |-> failed]

(* What a startup ended in: the program started, the seed file it had,      *)
(* whether its test found the Month table empty, whether the admin existed  *)
(* when it began, and whether it raised.                                    *)
Booted(op, impl, file, was_empty, had_admin, failed) ==
    [op |-> op, impl |-> impl, file |-> file, was_empty |-> was_empty,
     had_admin |-> had_admin, failed |-> failed]

Outcome(r, found, failed) ==
    IF "startup" \in {r.op, r.caller}
    THEN Booted("startup", r.impl, r.body.file, r.was_empty, r.had_admin, failed)
    ELSE IF r.op \in {"create_user", "change_admin_password"}
    THEN UserOp(r.op, r.body.username, r.body.password, 0, {}, failed)
    ELSE Returned(r, found, failed, respond(r, found, failed))

At(r, op, pc) == r.op = op /\ r.pc = pc

(* The sessions of bag, where every day lookup that waits for its second    *)
(* query has added the events table the step leaves to those it has seen.   *)
Watch(bag) ==
    LET S == BagToSet(bag)
        saw(x) == IF At(x, "get_events_by_date", "translated")
                  THEN [x EXCEPT !.seen = @ \cup {events'}]
                  ELSE x
    IN  [y \in { saw(x) : x \in S } |->
            Sum([x \in S |-> IF saw(x) = y THEN bag[x] ELSE 0], S)]

(* The session is closed. *)
FinishAs(r, outcome) ==
    /\ sessions' = Watch(sessions (-) Only(r))
    /\ last' = outcome

(* The function returns or raises; the session is closed. *)
Finish(r, found, failed) == FinishAs(r, Outcome(r, found, failed))

(* The session goes on to its next position. *)
Goto(r, next) ==
    /\ sessions' = Watch((sessions (-) Only(r)) (+) Only(next))
    /\ UNCHANGED last

-----------------------------------------------------------------------------
(* create_month (crud.py:22-40) and create_month_db (app.py:210-228), one   *)
(* step per commit and per query.                                           *)

(* db.add(db_month); db.commit() *)
CmMonth ==
    \E r \in Busy :
      /\ At(r, "create_month", "month")
      /\ LET mid == NextId(months)
         IN  /\ months' = months \cup {[id |-> mid, month_bn |-> r.body.month_bn,
                                        month_en |-> r.body.month_en]}
             /\ Goto(r, [r EXCEPT !.pc = "load_month", !.rid = mid])
      /\ UNCHANGED <<events, details, users, now, issued>>

(* db.refresh(db_month) after the first commit, and the reload of the       *)
(* expired db_month when db_month.id is read for a later event; both raise  *)
(* when the row is gone.                                                    *)
CmLoadMonth ==
    \E r \in Busy :
      /\ At(r, "create_month", "load_month")
      /\ IF ById(months, r.rid) = {} THEN Finish(r, TRUE, TRUE)
         ELSE IF r.i > Len(r.body.events) THEN Goto(r, [r EXCEPT !.pc = "refresh_month"])
         ELSE Goto(r, [r EXCEPT !.pc = "event"])
      /\ UNCHANGED <<months, events, details, users, now, issued>>

(* db.add(db_event); db.commit() *)
CmEvent ==
    \E r \in Busy :
      /\ At(r, "create_month", "event")
      /\ LET eid == NextId(events)
         IN  /\ events' = events \cup {[id |-> eid, month_id |-> r.rid,
                                        day |-> r.body.events[r.i].day]}
             /\ Goto(r, [r EXCEPT !.pc = "load_event", !.eid = eid,
                                  !.made = @ \cup {eid}])
      /\ UNCHANGED <<months, details, users, now, issued>>

(* db.refresh(db_event), which raises when the row is gone. In app.py the   *)
(* name EventDetail is bound to the pydantic schema (app.py:94), so the     *)
(* construction of the first detail raises a ValidationError (app.py:223).  *)
CmLoadEvent ==
    \E r \in Busy :
      /\ At(r, "create_month", "load_event")
      /\ IF ById(events, r.eid) = {} THEN Finish(r, TRUE, TRUE)
         ELSE IF r.impl = "app" /\ r.body.events[r.i].details # <<>>
              THEN Finish(r, TRUE, TRUE)
         ELSE Goto(r, [r EXCEPT !.pc = "details"])
      /\ UNCHANGED <<months, events, details, users, now, issued>>

(* db.add(db_detail) for each detail; db.commit() *)
CmDetails ==
    \E r \in Busy :
      /\ At(r, "create_month", "details")
      /\ details' = add_details(details, r.eid, r.body.events[r.i].details)
      /\ Goto(r, [r EXCEPT !.i = @ + 1,
                     !.pc = IF r.i + 1 > Len(r.body.events) THEN "refresh_month"
                            ELSE "load_month"])
      /\ UNCHANGED <<months, events, users, now, issued>>

(* month_create = MonthCreate(...) of the k-th month of the calendar and   *)
(* the call of create_month (main.py:37-48, app.py:498-509); after the last *)
(* month, the lookup of the admin (main.py:54, app.py:515).                 *)
seed_month(r, k) ==
    IF k > Len(r.body.file.calendar)
    THEN [r EXCEPT !.op = "startup", !.caller = "", !.pc = "get_user"]
    ELSE [r EXCEPT !.op = "create_month", !.caller = "startup", !.pc = "month",
                   !.k = k, !.i = 1,
                   !.body.month_bn = r.body.file.calendar[k].month_bn,
                   !.body.month_en = r.body.file.calendar[k].month_en,
                   !.body.events = r.body.file.calendar[k].events]

(* The last db.refresh(db_month); return db_month, to the route or to the   *)
(* loop of startup_event.                                                   *)
CmRefreshMonth ==
    \E r \in Busy :
      /\ At(r, "create_month", "refresh_month")
      /\ IF ById(months, r.rid) = {} THEN Finish(r, TRUE, TRUE)
         ELSE IF r.caller = "startup" THEN Goto(r, seed_month(r, r.k + 1))
         ELSE Finish(r, TRUE, FALSE)
      /\ UNCHANGED <<months, events, details, users, now, issued>>

-----------------------------------------------------------------------------
(* delete_month (crud.py:42-47, app.py:230-235) *)

(* db.query(Month).filter(Month.id == month_id).first(); None is returned. *)
DmFind ==
    \E r \in Busy :
      /\ At(r, "delete_month", "find")
      /\ IF ById(months, r.arg) = {} THEN Finish(r, FALSE, FALSE)
         ELSE Goto(r, [r EXCEPT !.pc = "delete", !.found = TRUE])
      /\ UNCHANGED <<months, events, details, users, now, issued>>

(* db.delete(db_month): the cascade of Month.events loads the month's events. *)
DmDelete ==
    \E r \in Busy :
      /\ At(r, "delete_month", "delete")
      /\ LET evs == { e.id : e \in { x \in events : x.month_id = r.arg } }
         IN  Goto(r, [r EXCEPT !.evs = evs, !.eid = 0,
                         !.pc = IF evs = {} THEN "commit" ELSE "cascade"])
      /\ UNCHANGED <<months, events, details, users, now, issued>>

(* The events loaded whose details the cascade has still to load. *)
Unvisited(r) == { e \in r.evs : e > r.eid }

(* The cascade of Event.details loads the details of the next loaded event. *)
DmCascade ==
    \E r \in Busy :
      /\ At(r, "delete_month", "cascade")
      /\ LET e == CHOOSE x \in Unvisited(r) : \A y \in Unvisited(r) : x <= y
         IN  Goto(r, [r EXCEPT !.eid = e,
                         !.dets = @ \cup { d.id : d \in { x \in details : x.event_id = e } },
                         !.pc = IF Unvisited(r) = {e} THEN "commit" ELSE "cascade"])
      /\ UNCHANGED <<months, events, details, users, now, issued>>

(* db.commit() deletes the rows the session has loaded, in one transaction; *)
(* a DELETE that matches no row is not an error.                            *)
DmCommit ==
    \E r \in Busy :
      /\ At(r, "delete_month", "commit")
      /\ details' = { d \in details : d.id \notin r.dets }
      /\ events' = { e \in events : e.id \notin r.evs }
      /\ months' = { m \in months : m.id # r.arg }
      /\ Finish(r, TRUE, FALSE)
      /\ UNCHANGED <<users, now, issued>>

-----------------------------------------------------------------------------
(* update_month (crud.py:49-56, app.py:237-244) *)

(* db.query(Month).filter(Month.id == month_id).first() *)
UmFind ==
    \E r \in Busy :
      /\ At(r, "update_month", "find")
      /\ LET db_month == ById(months, r.arg)
         IN  IF db_month = {} THEN Finish(r, FALSE, FALSE)
             ELSE Goto(r, [r EXCEPT !.pc = "commit", !.found = TRUE,
                                    !.old = CHOOSE m \in db_month : TRUE])
      /\ UNCHANGED <<months, events, details, users, now, issued>>

(* The two assignments and db.commit(): an UPDATE is sent when a value      *)
(* differs from the loaded one, and raises StaleDataError when it matches   *)
(* no row.                                                                  *)
UmCommit ==
    \E r \in Busy :
      /\ At(r, "update_month", "commit")
      /\ LET row == [id |-> r.arg, month_bn |-> r.body.month_bn,
                     month_en |-> r.body.month_en]
         IN  IF row = r.old
             THEN /\ Goto(r, [r EXCEPT !.pc = "refresh"])
                  /\ UNCHANGED months
             ELSE IF ById(months, r.arg) = {}
                  THEN /\ Finish(r, TRUE, TRUE)
                       /\ UNCHANGED months
             ELSE /\ months' = { m \in months : m.id # r.arg } \cup {row}
                  /\ Goto(r, [r EXCEPT !.pc = "refresh"])
      /\ UNCHANGED <<events, details, users, now, issued>>

(* db.refresh(db_month); return db_month *)
UmRefresh ==
    \E r \in Busy :
      /\ At(r, "update_month", "refresh")
      /\ Finish(r, TRUE, ById(months, r.arg) = {})
      /\ UNCHANGED <<months, events, details, users, now, issued>>

-----------------------------------------------------------------------------
(* create_event (crud.py:58-69) and create_event_db (app.py:246-257) *)

(* db.add(db_event); db.commit(): the month is not looked up. *)
CeEvent ==
    \E r \in Busy :
      /\ At(r, "create_event", "event")
      /\ UNCHANGED <<months, details, users, now, issued>>
      /\ LET eid == NextId(events)
         IN  /\ events' = events \cup {[id |-> eid, month_id |-> r.arg, day |-> r.body.day]}
             /\ Goto(r, [r EXCEPT !.pc = "load_event", !.eid = eid, !.made = {eid},
                                  !.found = ById(months, r.arg) # {}])

(* db.refresh(db_event); in app.py the construction of the first detail     *)
(* raises a ValidationError (app.py:253).                                   *)
CeLoadEvent ==
    \E r \in Busy :
      /\ At(r, "create_event", "load_event")
      /\ UNCHANGED <<months, events, details, users, now, issued>>
      /\ IF ById(events, r.eid) = {} THEN Finish(r, r.found, TRUE)
         ELSE IF r.impl = "app" /\ r.body.details # <<>> THEN Finish(r, r.found, TRUE)
         ELSE Goto(r, [r EXCEPT !.pc = "details"])

(* db.add(db_detail) for each detail; db.commit() *)
CeDetails ==
    \E r \in Busy :
      /\ At(r, "create_event", "details")
      /\ UNCHANGED <<months, events, users, now, issued>>
      /\ details' = add_details(details, r.eid, r.body.details)
      /\ Goto(r, [r EXCEPT !.pc = "refresh"])

(* The last db.refresh(db_event); return db_event *)
CeRefresh ==
    \E r \in Busy :
      /\ At(r, "create_event", "refresh")
      /\ UNCHANGED <<months, events, details, users, now, issued>>
      /\ Finish(r, r.found, ById(events, r.eid) = {})

-----------------------------------------------------------------------------
(* delete_event (crud.py:71-76, app.py:259-264) *)

(* db.query(Event).filter(Event.id == event_id).first() *)
DeFind ==
    \E r \in Busy :
      /\ At(r, "delete_event", "find")
      /\ UNCHANGED <<months, events, details, users, now, issued>>
      /\ IF ById(events, r.arg) = {} THEN Finish(r, FALSE, FALSE)
         ELSE Goto(r, [r EXCEPT !.pc = "delete", !.found = TRUE])

(* db.delete(db_event): the cascade of Event.details loads the event's details. *)
DeDelete ==
    \E r \in Busy :
      /\ At(r, "delete_event", "delete")
      /\ UNCHANGED <<months, events, details, users, now, issued>>
      /\ Goto(r, [r EXCEPT !.pc = "commit",
                     !.dets = { d.id : d \in { x \in details : x.event_id = r.arg } }])

(* db.commit() deletes the event and the details loaded. *)
DeCommit ==
    \E r \in Busy :
      /\ At(r, "delete_event", "commit")
      /\ UNCHANGED <<months, users, now, issued>>
      /\ details' = { d \in details : d.id \notin r.dets }
      /\ events' = { e \in events : e.id # r.arg }
      /\ Finish(r, TRUE, FALSE)

-----------------------------------------------------------------------------
(* add_detail (crud.py:78-83) *)

(* db.add(db_detail); db.commit(): the event is not looked up. *)
AdCommit ==
    \E r \in Busy :
      /\ At(r, "add_detail", "commit")
      /\ LET did == NextId(details)
         IN  /\ details' = details \cup {[id |-> did, event_id |-> r.arg,
                                          detail |-> r.body.detail]}
             /\ Goto(r, [r EXCEPT !.pc = "refresh", !.rid = did,
                                  !.found = ById(events, r.arg) # {}])
      /\ UNCHANGED <<months, events, users, now, issued>>

(* db.refresh(db_detail); return db_detail *)
AdRefresh ==
    \E r \in Busy :
      /\ At(r, "add_detail", "refresh")
      /\ Finish(r, r.found, ById(details, r.rid) = {})
      /\ UNCHANGED <<months, events, details, users, now, issued>>

-----------------------------------------------------------------------------
(* delete_detail (crud.py:85-90) *)

(* db.query(EventDetail).filter(EventDetail.id == detail_id).first() *)
DdFind ==
    \E r \in Busy :
      /\ At(r, "delete_detail", "find")
      /\ IF ById(details, r.arg) = {} THEN Finish(r, FALSE, FALSE)
         ELSE Goto(r, [r EXCEPT !.pc = "commit", !.found = TRUE])
      /\ UNCHANGED <<months, events, details, users, now, issued>>

(* db.delete(db_detail); db.commit() *)
DdCommit ==
    \E r \in Busy :
      /\ At(r, "delete_detail", "commit")
      /\ details' = { d \in details : d.id # r.arg }
      /\ Finish(r, TRUE, FALSE)
      /\ UNCHANGED <<months, events, users, now, issued>>

-----------------------------------------------------------------------------
(* get_events_by_date (crud.py:99-110, app.py:287-298): two queries, each a *)
(* step; the route returns what the function returns.                       *)

(* ret: the rows returned; lookups: the number of queries sent to the       *)
(* store; day_bn: the translation of the day asked for.                     *)
Asked(op, month_id, day, ret, lookups, day_bn) ==
    [op |-> op, month_id |-> month_id, day |-> day, ret |-> ret,
     lookups |-> lookups, day_bn |-> day_bn]

(* The exact query; if events: return events. Without a match the day is    *)
(* translated, and [] is returned when the translation is the day itself.   *)
GdExact ==
    \E r \in Busy :
      /\ At(r, "get_events_by_date", "exact")
      /\ UNCHANGED <<months, events, details, users, now, issued>>
      /\ LET found == events_on(DB, r.arg, r.body.day)
             day_bn == to_bangla_digits(r.body.day)
         IN  IF found # {}
             THEN FinishAs(r, Asked(r.op, r.arg, r.body.day, found, 1, day_bn))
             ELSE IF day_bn # r.body.day
                  THEN Goto(r, [r EXCEPT !.pc = "translated"])
             ELSE FinishAs(r, Asked(r.op, r.arg, r.body.day, {}, 1, day_bn))

(* The query with the translated day, whose rows are returned. *)
GdTranslated ==
    \E r \in Busy :
      /\ At(r, "get_events_by_date", "translated")
      /\ UNCHANGED <<months, events, details, users, now, issued>>
      /\ LET day_bn == to_bangla_digits(r.body.day)
         IN  FinishAs(r, Asked(r.op, r.arg, r.body.day,
                               events_on(DB, r.arg, day_bn), 2, day_bn))

-----------------------------------------------------------------------------
(* create_user (crud.py:8-14, create_user_db of app.py), called on its own, *)
(* by change_admin_password (change_admin.py:25) and by startup_event       *)
(* (main.py:55, app.py:516).                                                *)

(* The salts pwd_context.hash may draw. *)
Salts == {1, 2}

(* The index on users.username without unique=True. *)
ix_users_username_not_unique(table, username) == TRUE

(* username = Column(String, unique=True, index=True): whether the index    *)
(* admits a new row with the username.                                      *)
ix_users_username(table, username) == get_user_by_username(table, username) = {}

(* get_password_hash; db.add(db_user); db.commit(): the unique index on     *)
(* users.username makes the commit raise IntegrityError when the username   *)
(* is taken. change_admin_password catches the exception and ends           *)
(* (change_admin.py:28); startup_event does not.                            *)
CuCommit ==
    \E r \in Busy, salt \in Salts :
      /\ r.op \in {"create_user", "change_admin_password", "startup"}
      /\ r.pc = "create_user"
      /\ IF ~ix_users_username(users, r.body.username)
         THEN /\ Finish(r, r.found, TRUE)
              /\ UNCHANGED users
         ELSE /\ users' = users \cup
                    {[id |-> NextId(users), username |-> r.body.username,
                      hashed_password |-> get_password_hash(r.body.password, salt)]}
              /\ Goto(r, [r EXCEPT !.pc = "refresh_user", !.rid = NextId(users)])
      /\ UNCHANGED <<months, events, details, now, issued>>

(* db.refresh(db_user); return db_user *)
CuRefresh ==
    \E r \in Busy :
      /\ r.op \in {"create_user", "change_admin_password", "startup"}
      /\ r.pc = "refresh_user"
      /\ Finish(r, r.found, ById(users, r.rid) = {})
      /\ UNCHANGED <<months, events, details, users, now, issued>>

-----------------------------------------------------------------------------
(* change_admin_password (change_admin.py:8-31) *)

(* user = crud.get_user(db, new_username) *)
CapFind ==
    \E r \in Busy :
      /\ At(r, "change_admin_password", "find")
      /\ LET user == get_user_by_username(users, r.body.username)
         IN  IF user = {} THEN Goto(r, [r EXCEPT !.pc = "create_user"])
             ELSE Goto(r, [r EXCEPT !.pc = "update", !.found = TRUE,
                                    !.rid = (CHOOSE u \in user : TRUE).id])
      /\ UNCHANGED <<months, events, details, users, now, issued>>

(* user.hashed_password = hashed_password; db.commit(): an UPDATE of the    *)
(* row loaded, which raises StaleDataError when it matches no row.          *)
CapUpdate ==
    \E r \in Busy, salt \in Salts :
      /\ At(r, "change_admin_password", "update")
      /\ IF ById(users, r.rid) = {}
         THEN /\ Finish(r, TRUE, TRUE)
              /\ UNCHANGED users
         ELSE /\ users' = { IF u.id = r.rid
                            THEN [u EXCEPT !.hashed_password =
                                      get_password_hash(r.body.password, salt)]
                            ELSE u : u \in users }
              /\ Finish(r, TRUE, FALSE)
      /\ UNCHANGED <<months, events, details, now, issued>>

-----------------------------------------------------------------------------
(* startup_event (main.py:20-60, app.py:472-521) *)

(* os.getenv("ADMIN_USERNAME", "admin"), os.getenv("ADMIN_PASSWORD", "password123") *)
admin_username == "admin"

admin_password == "password123"

(* The test that the Month table is empty (count() == 0 in main.py:25,      *)
(* first() is None in app.py:483), the test that file.json exists and its   *)
(* reading; a startup that finds a Month or no file returns.                *)
BtTest ==
    \E r \in Busy :
      /\ At(r, "startup", "test")
      /\ IF months # {} THEN Finish(r, TRUE, FALSE)
         ELSE IF ~r.body.file.found
              THEN FinishAs(r, Outcome([r EXCEPT !.was_empty = TRUE], TRUE, FALSE))
         ELSE Goto(r, seed_month([r EXCEPT !.was_empty = TRUE], 1))
      /\ UNCHANGED <<months, events, details, users, now, issued>>

(* if not get_user(db, admin_username): create_user(...) *)
BtGetUser ==
    \E r \in Busy :
      /\ At(r, "startup", "get_user")
      /\ IF get_user_by_username(users, admin_username) # {}
         THEN Finish(r, TRUE, FALSE)
         ELSE Goto(r, [r EXCEPT !.pc = "create_user",
                                !.body.username = admin_username,
                                !.body.password = admin_password])
      /\ UNCHANGED <<months, events, details, users, now, issued>>

(* The steps of the requests of the admin routes. *)
Step ==
    \/ CmMonth
    \/ CmLoadMonth
    \/ CmEvent
    \/ CmLoadEvent
    \/ CmDetails
    \/ CmRefreshMonth
    \/ DmFind
    \/ DmDelete
    \/ DmCascade
    \/ DmCommit
    \/ UmFind
    \/ UmCommit
    \/ UmRefresh
    \/ CeEvent
    \/ CeLoadEvent
    \/ CeDetails
    \/ CeRefresh
    \/ DeFind
    \/ DeDelete
    \/ DeCommit
    \/ AdCommit
    \/ AdRefresh
    \/ DdFind
    \/ DdCommit

-----------------------------------------------------------------------------
(* The store driven through the crud functions: a call opens a session and  *)
(* runs step by step among the other calls in flight.                       *)

Call(op, impl, pc, arg, body) == Start(Session(op, impl, pc, arg, body, FALSE, NoCred))

CreateMonth ==
    /\ \E month \in MonthInputs :
          Call("create_month", "api", "month", 0, MonthCreateBody(month))
    /\ UNCHANGED <<months, events, details, users, now, issued, last>>

CreateMonthDb ==
    /\ \E month \in MonthInputs :
          Call("create_month", "app", "month", 0, MonthCreateBody(month))
    /\ UNCHANGED <<months, events, details, users, now, issued, last>>

DeleteMonth ==
    /\ \E month_id \in MonthIds : Call("delete_month", "api", "find", month_id, NoBody)
    /\ UNCHANGED <<months, events, details, users, now, issued, last>>

UpdateMonth ==
    /\ \E month_id \in MonthIds, month \in MonthBases :
          Call("update_month", "api", "find", month_id, MonthBody(month))
    /\ UNCHANGED <<months, events, details, users, now, issued, last>>

CreateEvent ==
    /\ \E month_id \in MonthIds, event \in EventInputs :
          Call("create_event", "api", "event", month_id, EventCreateBody(event))
    /\ UNCHANGED <<months, events, details, users, now, issued, last>>

CreateEventDb ==
    /\ \E month_id \in MonthIds, event \in EventInputs :
          Call("create_event", "app", "event", month_id, EventCreateBody(event))
    /\ UNCHANGED <<months, events, details, users, now, issued, last>>

DeleteEvent ==
    /\ \E event_id \in EventIds : Call("delete_event", "api", "find", event_id, NoBody)
    /\ UNCHANGED <<months, events, details, users, now, issued, last>>

AddDetail ==
    /\ \E event_id \in EventIds, detail \in Texts :
          Call("add_detail", "api", "commit", event_id, DetailBody(detail))
    /\ UNCHANGED <<months, events, details, users, now, issued, last>>

(* add_detail_db (app.py:266-271): the name EventDetail is bound to the     *)
(* pydantic schema (app.py:94), whose construction without an id raises a   *)
(* ValidationError (app.py:267) before the store is touched.                *)
AddDetailDb ==
    /\ \E event_id \in EventIds, detail \in Texts :
          last' = Returned(Session("add_detail", "app", "", event_id, DetailBody(detail),
                                   FALSE, NoCred),
                           ById(events, event_id) # {}, TRUE, 0)
    /\ UNCHANGED <<months, events, details, users, now, issued, sessions>>

DeleteDetail ==
    /\ \E detail_id \in DetailIds : Call("delete_detail", "api", "find", detail_id, NoBody)
    /\ UNCHANGED <<months, events, details, users, now, issued, last>>

(* delete_detail_db (app.py:273-278): the schema has no attribute id and    *)
(* EventDetail.id raises an AttributeError (app.py:274) before the store is *)
(* touched.                                                                 *)
DeleteDetailDb ==
    /\ \E detail_id \in DetailIds :
          last' = Returned(Session("delete_detail", "app", "", detail_id, NoBody,
                                   FALSE, NoCred),
                           ById(details, detail_id) # {}, TRUE, 0)
    /\ UNCHANGED <<months, events, details, users, now, issued, sessions>>

Init ==
    /\ months = {}
    /\ events = {}
    /\ details = {}
    /\ users = {}
    /\ now = 0
    /\ issued = {}
    /\ sessions = NoSessions
    /\ last = NoLast

Next ==
    \/ CreateMonth
    \/ CreateMonthDb
    \/ DeleteMonth
    \/ UpdateMonth
    \/ CreateEvent
    \/ CreateEventDb
    \/ DeleteEvent
    \/ AddDetail
    \/ AddDetailDb
    \/ DeleteDetail
    \/ DeleteDetailDb
    \/ Step

Spec == Init /\ [][Next]_vars

-----------------------------------------------------------------------------
(* The public day lookup, read_events_by_date, from every events table of  *)
(* the bounds, while events are created and deleted.                        *)

DayStrings ==
    { <<"1">>, <<"bn1">>, <<"1", "2">>, <<"bn1", "bn2">>, <<"bn1", "2">>, <<"x">> }

QueryMonths == {1, 2}

(* Every events table with ids in EventIds: a set of ids and a row for each. *)
EventTables ==
    { { [id |-> i, month_id |-> f[i][1], day |-> f[i][2]] : i \in S } :
        S \in SUBSET EventIds, f \in [EventIds -> QueryMonths \X DayStrings] }

NotAsked == Asked("none", 0, <<>>, {}, 0, <<>>)

(* read_events_by_date (public.py:20-22, app.py:354-356): the request opens *)
(* a session and calls get_events_by_date; at most MaxLookups lookups are   *)
(* in flight.                                                               *)
ReadEventsByDate ==
    /\ Cardinality({ r \in Busy : r.op = "get_events_by_date" }) < MaxLookups
    /\ \E month_id \in QueryMonths, day \in DayStrings :
          Call("get_events_by_date", "api", "exact", month_id,
               [NoBody EXCEPT !.day = day])
    /\ UNCHANGED <<months, events, details, users, now, issued, last>>

InitQuery ==
    /\ months = {}
    /\ events \in EventTables
    /\ details = {}
    /\ users = {}
    /\ now = 0
    /\ issued = {}
    /\ sessions = NoSessions
    /\ last = NotAsked

NextQuery ==
    \/ ReadEventsByDate
    \/ GdExact
    \/ GdTranslated
    \/ CreateEvent
    \/ CeEvent
    \/ CeLoadEvent
    \/ CeDetails
    \/ CeRefresh
    \/ DeleteEvent
    \/ DeFind
    \/ DeDelete
    \/ DeCommit

SpecQuery == InitQuery /\ [][NextQuery]_vars

-----------------------------------------------------------------------------
(* The two authentication paths over every credential, time and users      *)
(* table of the bounds: one request, answered.                             *)

AdminRow == [id |-> 1, username |-> "admin", hashed_password |-> get_password_hash("password123", 1)]

(* A user whose username is the empty string, as change_admin.py creates it. *)
BlankRow == [id |-> 2, username |-> "", hashed_password |-> get_password_hash("pw", 1)]

UserTables == SUBSET {AdminRow, BlankRow}

Subjects == { <<FALSE, "">>, <<TRUE, "">>, <<TRUE, "admin">>, <<TRUE, "ghost">> }

Expiries == { <<FALSE, 0>> } \cup { <<TRUE, e>> : e \in 0..MaxExp }

BodyStrs ==
    { Str(0, "jwt", sig, s[1], s[2], e[1], e[2]) :
        sig \in BOOLEAN, s \in Subjects, e \in Expiries }
    \cup { EmptyStr, Str(0, "garbage", FALSE, FALSE, "", FALSE, 0) }

CookieValues == { [b EXCEPT !.prefixes = n] : b \in BodyStrs, n \in {0, 1, 2} }

Cookies == { NoCookie } \cup { Cookie(TRUE, v) : v \in CookieValues }

Headers ==
    { NoHeader } \cup { Header(TRUE, scheme, b) : scheme \in {"bearer", "basic"}, b \in BodyStrs }

GateTimes == 0..(TicksPerSecond * (MaxExp + 1))

Answered(op, header, cookie, status, www_authenticate, user, raised, response) ==
    [op |-> op, header |-> header, cookie |-> cookie, status |-> status,
     www_authenticate |-> www_authenticate, user |-> user, raised |-> raised,
     response |-> response]

NotAnswered == Answered("none", NoHeader, NoCookie, 0, "", {}, FALSE, "")

BearerRequest ==
    /\ last = NotAnswered
    /\ \E header \in Headers :
          LET r == admin_dependency(header, users, now)
          IN  last' = Answered("bearer", header, NoCookie, r.status, r.www_authenticate,
                               r.user, FALSE, "")
    /\ UNCHANGED <<months, events, details, users, now, issued, sessions>>

DashboardRequest ==
    /\ last = NotAnswered
    /\ \E cookie \in Cookies :
          LET r == dashboard(cookie, users, now)
          IN  last' = Answered("dashboard", NoHeader, cookie, 0, "", r.user, r.raised,
                               r.response)
    /\ UNCHANGED <<months, events, details, users, now, issued, sessions>>

InitGate ==
    /\ months = {}
    /\ events = {}
    /\ details = {}
    /\ users \in UserTables
    /\ now \in GateTimes
    /\ issued = {}
    /\ sessions = NoSessions
    /\ last = NotAnswered

NextGate ==
    \/ BearerRequest
    \/ DashboardRequest

SpecGate == InitGate /\ [][NextGate]_vars

-----------------------------------------------------------------------------
(* The token service over time: the two logins issue tokens and the clock  *)
(* advances, by a tick within the first ticks of a minute or by a minute.  *)

Usernames == {"admin", "ghost"}

Passwords == {"password123", "wrong"}

MaxClock == timedelta(ACCESS_TOKEN_EXPIRE_MINUTES + 1) + MaxFineTicks

Logged(op, status) == [op |-> op, status |-> status]

NotLogged == Logged("none", 0)

(* A token, the tick at which it was issued and the endpoint that issued it. *)
Issue(tokens, via) == { [token |-> tok, at |-> now, via |-> via] : tok \in tokens }

MayIssue == Cardinality(issued) < MaxIssued /\ now <= MaxFineTicks

LoginForAccessToken ==
    /\ MayIssue
    /\ \E username \in Usernames, password \in Passwords :
          LET r == login_for_access_token(username, password, users, now)
          IN  /\ issued' = issued \cup Issue(r.access_token, "token")
              /\ last' = Logged("token", r.status)
    /\ UNCHANGED <<months, events, details, users, now, sessions>>

LoginSubmit ==
    /\ MayIssue
    /\ \E username \in Usernames, password \in Passwords :
          LET r == login_submit(username, password, users, now)
          IN  /\ issued' = issued \cup Issue(r.access_token, "login")
              /\ last' = Logged("login", r.status)
    /\ UNCHANGED <<months, events, details, users, now, sessions>>

Tick ==
    /\ now % MinuteTicks < MaxFineTicks
    /\ now' = now + 1
    /\ UNCHANGED <<months, events, details, users, issued, sessions, last>>

NextMinute ==
    /\ now + MinuteTicks <= MaxClock
    /\ now' = now + MinuteTicks
    /\ UNCHANGED <<months, events, details, users, issued, sessions, last>>

InitAuth ==
    /\ months = {}
    /\ events = {}
    /\ details = {}
    /\ users = {AdminRow}
    /\ now = 0
    /\ issued = {}
    /\ sessions = NoSessions
    /\ last = NotLogged

NextAuth ==
    \/ LoginForAccessToken
    \/ LoginSubmit
    \/ Tick
    \/ NextMinute

SpecAuth == InitAuth /\ [][NextAuth]_vars

-----------------------------------------------------------------------------
(* The admin routes over HTTP (routers/admin.py, app.py:365-393), against a *)
(* store that create_month or create_event has filled. The router's         *)
(* dependency runs first: a request it rejects is answered 401 and opens no *)
(* session; a request it lets through runs its crud function step by step   *)
(* among the other requests in flight.                                      *)

SampleStores ==
    { EmptyDB }
    \cup { db \in { create_month(EmptyDB, m, 0).db : m \in MonthInputs } : InBounds(db) }
    \cup { create_event(EmptyDB, 1, e).db : e \in EventInputs }

HttpNow == TicksPerSecond

GoodToken == Str(0, "jwt", TRUE, TRUE, "admin", TRUE, MaxExp)

HttpTokens ==
    { GoodToken,
      [GoodToken EXCEPT !.sig = FALSE],
      [GoodToken EXCEPT !.exp = 0],
      [GoodToken EXCEPT !.sub = "ghost"] }

(* No credential, the session cookie alone, or a bearer token. *)
HttpCredentials ==
    [header : { NoHeader }, cookie : { NoCookie, Cookie(TRUE, [GoodToken EXCEPT !.prefixes = 1]) }]
    \cup [header : { Header(TRUE, "bearer", tok) : tok \in HttpTokens }, cookie : { NoCookie }]

(* The clock ticks as a request arrives; the requests followed are those   *)
(* that arrive before HttpNow + MaxRequests.                                *)
Arrive ==
    /\ now < HttpNow + MaxRequests
    /\ now' = now + 1

(* found: whether the id the request addresses is the id of a row when the  *)
(* request arrives.                                                         *)
Request(op, impl, pc, arg, body, found) ==
    \E cred \in HttpCredentials :
        LET auth == admin_dependency(cred.header, users, now)
            r == Session(op, impl, pc, arg, body, TRUE, cred)
        IN  IF auth.status # 200
            THEN /\ last' = Returned(r, found, FALSE, auth.status)
                 /\ UNCHANGED sessions
            ELSE /\ Start(r)
                 /\ UNCHANGED last

(* A request whose function raises before it touches the store. *)
RequestRaising(op, arg, body, found) ==
    \E cred \in HttpCredentials :
        LET auth == admin_dependency(cred.header, users, now)
            r == Session(op, "app", "", arg, body, TRUE, cred)
        IN  /\ last' = IF auth.status # 200 THEN Returned(r, found, FALSE, auth.status)
                       ELSE Returned(r, found, TRUE, respond(r, found, TRUE))
            /\ UNCHANGED sessions

PostMonth ==
    /\ \E month \in MonthInputs :
          Request("create_month", "api", "month", 0, MonthCreateBody(month), TRUE)
    /\ Arrive
    /\ UNCHANGED <<months, events, details, users, issued>>

PostMonthApp ==
    /\ \E month \in MonthInputs :
          Request("create_month", "app", "month", 0, MonthCreateBody(month), TRUE)
    /\ Arrive
    /\ UNCHANGED <<months, events, details, users, issued>>

DeleteMonthRoute ==
    /\ \E month_id \in MonthIds :
          Request("delete_month", "api", "find", month_id, NoBody, month_id \in Ids(months))
    /\ Arrive
    /\ UNCHANGED <<months, events, details, users, issued>>

PutMonth ==
    /\ \E month_id \in MonthIds, month \in MonthBases :
          Request("update_month", "api", "find", month_id, MonthBody(month),
                  month_id \in Ids(months))
    /\ Arrive
    /\ UNCHANGED <<months, events, details, users, issued>>

PostEvent ==
    /\ \E month_id \in MonthIds, event \in EventInputs :
          Request("create_event", "api", "event", month_id, EventCreateBody(event),
                  month_id \in Ids(months))
    /\ Arrive
    /\ UNCHANGED <<months, events, details, users, issued>>

PostEventApp ==
    /\ \E month_id \in MonthIds, event \in EventInputs :
          Request("create_event", "app", "event", month_id, EventCreateBody(event),
                  month_id \in Ids(months))
    /\ Arrive
    /\ UNCHANGED <<months, events, details, users, issued>>

DeleteEventRoute ==
    /\ \E event_id \in EventIds :
          Request("delete_event", "api", "find", event_id, NoBody, event_id \in Ids(events))
    /\ Arrive
    /\ UNCHANGED <<months, events, details, users, issued>>

PostDetail ==
    /\ \E event_id \in EventIds, detail \in Texts :
          Request("add_detail", "api", "commit", event_id, DetailBody(detail),
                  event_id \in Ids(events))
    /\ Arrive
    /\ UNCHANGED <<months, events, details, users, issued>>

PostDetailApp ==
    /\ \E event_id \in EventIds, detail \in Texts :
          RequestRaising("add_detail", event_id, DetailBody(detail),
                         event_id \in Ids(events))
    /\ Arrive
    /\ UNCHANGED <<months, events, details, users, issued>>

DeleteDetailRoute ==
    /\ \E detail_id \in DetailIds :
          Request("delete_detail", "api", "find", detail_id, NoBody, detail_id \in Ids(details))
    /\ Arrive
    /\ UNCHANGED <<months, events, details, users, issued>>

DeleteDetailApp ==
    /\ \E detail_id \in DetailIds :
          RequestRaising("delete_detail", detail_id, NoBody, detail_id \in Ids(details))
    /\ Arrive
    /\ UNCHANGED <<months, events, details, users, issued>>

InitHttp ==
    /\ \E db \in SampleStores :
          /\ months = db.months
          /\ events = db.events
          /\ details = db.details
    /\ users = {AdminRow}
    /\ now = HttpNow
    /\ issued = {}
    /\ sessions = NoSessions
    /\ last = NoLast

NextHttp ==
    \/ PostMonth
    \/ PostMonthApp
    \/ DeleteMonthRoute
    \/ PutMonth
    \/ PostEvent
    \/ PostEventApp
    \/ DeleteEventRoute
    \/ PostDetail
    \/ PostDetailApp
    \/ DeleteDetailRoute
    \/ DeleteDetailApp
    \/ Step

SpecHttp == InitHttp /\ [][NextHttp]_vars

-----------------------------------------------------------------------------
(* Properties of the store, checked under Spec. *)

(* The session r of a call of op returns or raises in this step. *)
Finishing(r, op) == r.op = op /\ sessions' = sessions (-) Only(r)

(* The events of the month a delete_month addresses: those its cascade has  *)
(* loaded and those the store holds when it commits.                        *)
FormerEvents(r) == r.evs \cup { e.id : e \in { x \in events : x.month_id = r.arg } }

(* C1: when delete_month(id) returns an existing month, no Event has        *)
(* month_id = id and no EventDetail has the event_id of one of the events   *)
(* the month had.                                                           *)
C1_DeleteMonthCascades ==
    [][ \A r \in Busy :
          (Finishing(r, "delete_month") /\ last'.found) =>
              /\ \A e \in events' : e.month_id # r.arg
              /\ \A d \in details' : d.event_id \notin FormerEvents(r) ]_vars

(* C2: a create_month that raised leaves no row of that call behind: not    *)
(* the Month it inserted, none of the Events it inserted and no EventDetail *)
(* of such an event.                                                        *)
C2_CreateMonthAllOrNothing ==
    [][ \A r \in Busy :
          (Finishing(r, "create_month") /\ last'.failed) =>
              /\ r.rid \notin Ids(months')
              /\ r.made \cap Ids(events') = {}
              /\ \A d \in details' : d.event_id \notin r.made ]_vars

(* C9: every Event's month_id is the id of a Month of the store and every   *)
(* EventDetail's event_id is the id of an Event of the store.               *)
C9_ReferentialIntegrity ==
    /\ \A e \in events : e.month_id \in Ids(months)
    /\ \A d \in details : d.event_id \in Ids(events)

-----------------------------------------------------------------------------
(* Properties of the day lookup, checked under SpecQuery. *)

WesternDigits == {"0", "1", "2", "3", "4", "5", "6", "7", "8", "9"}

NativeDigits == {"bn0", "bn1", "bn2", "bn3", "bn4", "bn5", "bn6", "bn7", "bn8", "bn9"}

(* The fixed substitution of the specification, character by character. *)
NativeGlyph(c) ==
    CASE c = "0" -> "bn0" [] c = "1" -> "bn1" [] c = "2" -> "bn2" [] c = "3" -> "bn3"
      [] c = "4" -> "bn4" [] c = "5" -> "bn5" [] c = "6" -> "bn6" [] c = "7" -> "bn7"
      [] c = "8" -> "bn8" [] c = "9" -> "bn9" [] OTHER -> c

DigitTranslated(s) == [i \in 1..Len(s) |-> NativeGlyph(s[i])]

HasWesternDigit(s) == \E i \in 1..Len(s) : s[i] \in WesternDigits

InNativeDigits(s) == Len(s) > 0 /\ \A i \in 1..Len(s) : s[i] \in NativeDigits

(* The answer the specification gives for a day of a month over a table of *)
(* events: the events of the month on that day, or, when there is none,     *)
(* those on the digit-translated day.                                       *)
ExactMatches(table, month_id, day) ==
    { e \in table : e.month_id = month_id /\ e.day = day }

TranslatedMatches(table, month_id, day) ==
    { e \in table : e.month_id = month_id /\ e.day = DigitTranslated(day) }

RightAnswer(table, month_id, day) ==
    IF ExactMatches(table, month_id, day) # {} THEN ExactMatches(table, month_id, day)
    ELSE TranslatedMatches(table, month_id, day)

(* The last request that returned was a day lookup. *)
LookedUp == "lookups" \in DOMAIN last

(* C3: the lookup returns exactly the events of the month whose stored day  *)
(* equals the day asked for when there is one, and the events whose day     *)
(* equals the digit-translated string only when there is none: what it      *)
(* returns is that answer for an events table the store has held between    *)
(* its first query and its last.                                            *)
C3_ExactMatchWins ==
    [][ \A r \in Busy :
          Finishing(r, "get_events_by_date") =>
              \E table \in r.seen \cup {events} :
                  last'.ret = RightAnswer(table, r.arg, r.body.day) ]_vars

(* C4: a query in native digits never returns an event whose day has a      *)
(* Western digit; a query without a Western digit and without an exact      *)
(* match returns nothing after one lookup; the translation replaces each of *)
(* 0-9 by its glyph and leaves every other character as it is.              *)
C4_OneWayFallback ==
    [][ \A r \in Busy :
          Finishing(r, "get_events_by_date") =>
              /\ InNativeDigits(r.body.day) =>
                    \A e \in last'.ret : ~HasWesternDigit(e.day)
              /\ (~HasWesternDigit(r.body.day)
                    /\ ExactMatches(events, r.arg, r.body.day) = {}) =>
                    (last'.ret = {} /\ last'.lookups = 1)
              /\ last'.day_bn = DigitTranslated(r.body.day) ]_vars

(* A native-digit query, with no exact match, has returned nothing after    *)
(* one lookup in a month that holds the same day in Western digits, while   *)
(* another request was in flight.                                           *)
C4_Witness ==
    /\ LookedUp
    /\ InNativeDigits(last.day)
    /\ ExactMatches(events, last.month_id, last.day) = {}
    /\ \E e \in events : e.month_id = last.month_id /\ DigitTranslated(e.day) = last.day
                          /\ HasWesternDigit(e.day)
    /\ last.ret = {}
    /\ last.lookups = 1
    /\ Busy # {}

-----------------------------------------------------------------------------
(* Properties of the authentication paths, checked under SpecGate. A token  *)
(* counts as expired when its exp claim lies before the current second.     *)

Expired(s, t) == s.has_exp /\ s.exp < t \div TicksPerSecond

(* A compact JWS, signed by the server, with a subject, not expired. *)
TokenValid(s, t) ==
    /\ s.prefixes = 0
    /\ s.body = "jwt"
    /\ s.sig
    /\ s.has_sub
    /\ ~Expired(s, t)

RowsOf(username) == { u \in users : u.username = username }

BearerValid(header) ==
    /\ header.present
    /\ header.scheme = "bearer"
    /\ TokenValid(header.param, now)
    /\ RowsOf(header.param.sub) # {}

(* C6: the Bearer path ends in Authenticated(user), with the User row of    *)
(* the token's subject, exactly when the header is well formed, the token   *)
(* valid and that row exists; otherwise it ends in 401 with                 *)
(* WWW-Authenticate: Bearer and no user.                                    *)
C6_BearerPath ==
    last.op = "bearer" =>
        /\ BearerValid(last.header) =>
              /\ last.status = 200
              /\ last.user = RowsOf(last.header.param.sub)
        /\ ~BearerValid(last.header) =>
              /\ last.status = 401
              /\ last.www_authenticate = "Bearer"
              /\ last.user = {}

(* A valid token whose subject has no User row was rejected. *)
C6_Witness ==
    /\ last.op = "bearer"
    /\ last.header.present
    /\ last.header.scheme = "bearer"
    /\ TokenValid(last.header.param, now)
    /\ RowsOf(last.header.param.sub) = {}
    /\ users # {}
    /\ last.status = 401

(* The cookie's token after the prefix "Bearer " is stripped once. *)
Stripped(v) == IF v.prefixes > 0 THEN [v EXCEPT !.prefixes = @ - 1] ELSE v

CookieFails(cookie) ==
    \/ ~cookie.present
    \/ cookie.value.prefixes = 0 /\ cookie.value.body = ""
    \/ ~TokenValid(Stripped(cookie.value), now)
    \/ RowsOf(cookie.value.sub) = {}

(* C7: the Cookie path never raises; an absent or empty cookie, an invalid  *)
(* or expired token and a subject without a User row give no user; a user   *)
(* is given only for a valid token, and is the row of its subject; without  *)
(* a user the dashboard redirects to the login page.                        *)
C7_CookiePath ==
    last.op = "dashboard" =>
        /\ ~last.raised
        /\ last.response # "error"
        /\ CookieFails(last.cookie) => last.user = {}
        /\ last.user # {} => last.user = RowsOf(last.cookie.value.sub)
        /\ last.user = {} => last.response = "redirect:/login"

(* A cookie "Bearer <token>" whose token has expired sent the browser to the login page. *)
C7_Witness ==
    /\ last.op = "dashboard"
    /\ last.cookie.present
    /\ last.cookie.value.prefixes = 1
    /\ last.cookie.value.body = "jwt"
    /\ last.cookie.value.sig
    /\ Expired(last.cookie.value, now)
    /\ RowsOf(last.cookie.value.sub) # {}
    /\ last.response = "redirect:/login"

-----------------------------------------------------------------------------
(* Properties of the token service, checked under SpecAuth. *)

(* The lifetime the specification gives a token, in ticks. *)
Lifetime(via) ==
    IF via = "token" THEN ACCESS_TOKEN_EXPIRE_MINUTES * SecondsPerMinute * TicksPerSecond
    ELSE DefaultExpireMinutes * SecondsPerMinute * TicksPerSecond

(* C5: a token issued at T with ttl t (30 minutes from the token endpoint,  *)
(* 15 minutes from the dashboard login) validates at every time before      *)
(* T + t and fails at every time at or after T + t.                         *)
C5_TokenLifetime ==
    \A k \in issued :
        jwt_decode(k.token, now).ok <=> now < k.at + Lifetime(k.via)

-----------------------------------------------------------------------------
(* Properties of the admin routes, checked under SpecHttp. *)

(* A request was answered in this step without a session: the dependency   *)
(* has rejected it.                                                         *)
Refused == last' # last /\ sessions' = sessions

(* C8: every change of the Month, Event and EventDetail tables is a step of *)
(* a request that the Bearer path has authenticated; a request it does not  *)
(* authenticate (no credential, an invalid or expired bearer token, a       *)
(* session cookie alone) is answered 401 and leaves the tables as they are. *)
C8_WritesNeedBearer ==
    /\ [](\A r \in Busy : BearerValid(r.cred.header))
    /\ [][ /\ ~UNCHANGED store => sessions' # sessions
           /\ (last' # last /\ ~BearerValid(last'.cred.header)) =>
                (Refused /\ UNCHANGED store /\ last'.status = 401) ]_vars

(* A request that addressed an existing row, sent with the session cookie   *)
(* alone, was refused while an authenticated request was in flight.         *)
C8_Witness ==
    /\ last.route
    /\ last.found
    /\ ~last.cred.header.present
    /\ last.cred.cookie.present
    /\ last.status = 401
    /\ months # {}
    /\ Busy # {}

(* C10: an authenticated admin write request returns the affected entity,   *)
(* or answers 404 when the id it addresses is not the id of a row; no other *)
(* error is answered.                                                       *)
C10_EntityOr404 ==
    (last.route /\ BearerValid(last.cred.header)) =>
        /\ last.found => last.status = 200
        /\ ~last.found => last.status = 404

-----------------------------------------------------------------------------
(* The users table over time: users are created, the admin's password is    *)
(* changed from the command line, and the token endpoint is asked.          *)

UserIds == 1..2

NoUserOp == UserOp("none", "", "", 0, {}, FALSE)

(* The users table stays within UserIds whatever the sessions open insert. *)
CallUser(op, pc, username, password) ==
    /\ BagCardinality(sessions) < MaxSessions
    /\ MaxId(users) + BagCardinality(sessions) + 1 \in UserIds
    /\ sessions' = sessions (+)
           Only(Session(op, "api", pc, 0, UserBody(username, password), FALSE, NoCred))

(* crud.create_user(db, UserCreate(username, password)) *)
CreateUser ==
    /\ \E username \in Usernames, password \in Passwords :
          CallUser("create_user", "create_user", username, password)
    /\ UNCHANGED <<months, events, details, users, now, issued, last>>

(* python change_admin.py <username> <password> *)
ChangeAdminPassword ==
    /\ \E username \in Usernames, password \in Passwords :
          CallUser("change_admin_password", "find", username, password)
    /\ UNCHANGED <<months, events, details, users, now, issued, last>>

(* POST /token: one query for the user (app.py:327) *)
TokenRequest ==
    /\ \E username \in Usernames, password \in Passwords :
          LET r == login_for_access_token(username, password, users, now)
          IN  last' = UserOp("token", username, password, r.status, r.access_token, FALSE)
    /\ UNCHANGED <<months, events, details, users, now, issued, sessions>>

InitUsers ==
    /\ months = {}
    /\ events = {}
    /\ details = {}
    /\ users = {}
    /\ now = 0
    /\ issued = {}
    /\ sessions = NoSessions
    /\ last = NoUserOp

NextUsers ==
    \/ CreateUser
    \/ ChangeAdminPassword
    \/ TokenRequest
    \/ CuCommit
    \/ CuRefresh
    \/ CapFind
    \/ CapUpdate

SpecUsers == InitUsers /\ [][NextUsers]_vars

-----------------------------------------------------------------------------
(* Properties of the users table, checked under SpecUsers. *)

(* The rows whose username is the one submitted and whose hash is the hash  *)
(* of the password submitted.                                               *)
Matching(username, password) ==
    { u \in users : u.username = username /\ u.hashed_password.pw = password }

(* C11: the token endpoint issues a token exactly when a row with the       *)
(* submitted username exists and the submitted password verifies against    *)
(* its hash; the token's subject is then that username, and otherwise the   *)
(* answer is 401 and carries no token. The endpoint's step is the one that  *)
(* answers while no session moves.                                          *)
C11_TokenIffCredentials ==
    [][ (last'.op = "token" /\ sessions' = sessions) =>
          IF Matching(last'.username, last'.password) # {}
          THEN /\ last'.status = 200
               /\ Cardinality(last'.access_token) = 1
               /\ \A tok \in last'.access_token : tok.has_sub /\ tok.sub = last'.username
          ELSE /\ last'.status = 401
               /\ last'.access_token = {} ]_vars

(* The token endpoint refused the wrong password of an existing user. *)
C11_Witness ==
    /\ last.op = "token"
    /\ get_user_by_username(users, last.username) # {}
    /\ Matching(last.username, last.password) = {}
    /\ last.status = 401

-----------------------------------------------------------------------------
(* Bootstrap: the program is started, once or by several workers at a      *)
(* time, on stores that months and users have been written to, with the     *)
(* seed file found or not.                                                  *)

(* The months a seed document lists: one without events, one with an event  *)
(* and its detail.                                                          *)
SeedMonths ==
    { [month_bn |-> "muharram_bn", month_en |-> "Muharram", events |-> <<>>],
      [month_bn |-> "muharram_bn", month_en |-> "Muharram",
       events |-> << [day |-> <<"1">>, details |-> <<"t">>] >>] }

SeedFiles ==
    {SeedFile(FALSE, <<>>)} \cup
    { SeedFile(TRUE, calendar) : calendar \in SeqsUpTo(SeedMonths, MaxMonths) }

(* startup_event is entered: db = SessionLocal() (main.py:22, app.py:474).  *)
Boot(impl) ==
    \E file \in SeedFiles :
        /\ BagCardinality(sessions) < MaxSessions
        /\ sessions' = sessions (+)
               Only([Session("startup", impl, "test", 0, FileBody(file), FALSE, NoCred)
                       EXCEPT !.had_admin =
                                  get_user_by_username(users, admin_username) # {}])

(* The start of api.main:app *)
Startup ==
    /\ Boot("api")
    /\ UNCHANGED <<months, events, details, users, now, issued, last>>

(* The start of app:app *)
StartupApp ==
    /\ Boot("app")
    /\ UNCHANGED <<months, events, details, users, now, issued, last>>

(* The stores a startup finds: empty, or holding a month that an            *)
(* administrator has added.                                                 *)
NotBooted == Booted("none", "", NoFile, FALSE, FALSE, FALSE)

BootStores == { EmptyDB } \cup { create_month(EmptyDB, month, 0).db : month \in SeedMonths }

InitBoot ==
    /\ \E db \in BootStores :
          /\ months = db.months
          /\ events = db.events
          /\ details = db.details
    /\ users = {}
    /\ now = 0
    /\ issued = {}
    /\ sessions = NoSessions
    /\ last = NotBooted

NextBoot ==
    \/ Startup
    \/ StartupApp
    \/ CreateUser
    \/ BtTest
    \/ CmMonth
    \/ CmLoadMonth
    \/ CmEvent
    \/ CmLoadEvent
    \/ CmDetails
    \/ CmRefreshMonth
    \/ BtGetUser
    \/ CuCommit
    \/ CuRefresh

SpecBoot == InitBoot /\ [][NextBoot]_vars

-----------------------------------------------------------------------------
(* Properties of bootstrap, checked under SpecBoot. *)

(* The step is one of session r. *)
Acts(r) == CopiesIn(r, sessions') < CopiesIn(r, sessions)

(* C12: bootstrap seeds only when the Month table is empty. A startup whose *)
(* test finds a Month changes no Month, Event, EventDetail or User row, and *)
(* a startup inserts a Month only into a table that holds no Month but      *)
(* those it has inserted, so that two startups leave what one leaves.       *)
C12_BootstrapIdempotent ==
    [][ \A r \in Busy :
          /\ (Acts(r) /\ At(r, "startup", "test") /\ months # {})
                => (Finishing(r, "startup") /\ UNCHANGED <<store, users>>)
          /\ (Acts(r) /\ r.caller = "startup" /\ months' # months)
                => Cardinality(months) = r.k - 1 ]_vars

(* C13: after startup a User row of the configured admin username exists    *)
(* whenever none existed before, whether or not the Month table was empty   *)
(* and whether or not the seed file was found.                              *)
C13_DefaultAdminCreated ==
    (last.op = "startup" /\ ~last.had_admin) =>
        get_user_by_username(users, admin_username) # {}

-----------------------------------------------------------------------------
(* Uniqueness of usernames, checked under SpecUsers. *)

UniqueUsernames == \A u, v \in users : u.username = v.username => u = v

(* C14: usernames stay unique; a create_user with a username that exists    *)
(* fails and leaves the users table, the existing row's hash included, as   *)
(* it was; a change_admin_password whose lookup has found its username      *)
(* gives that row the new password's hash and adds no row.                  *)
C14_UsernamesUnique ==
    /\ []UniqueUsernames
    /\ [][ \A r \in Busy :
             /\ (Acts(r) /\ r.pc = "create_user"
                     /\ get_user_by_username(users, r.body.username) # {})
                   => (last'.failed /\ users' = users)
             /\ (Acts(r) /\ At(r, "change_admin_password", "update"))
                   => /\ Ids(users') = Ids(users)
                      /\ \A u \in users' :
                            IF u.username = r.body.username
                            THEN u.hashed_password.pw = r.body.password
                            ELSE u \in users ]_vars

C14_Witness ==
    /\ last.op = "change_admin_password"
    /\ last.failed
    /\ \E u \in users : u.username = last.username /\ u.hashed_password.pw # last.password
    /\ Cardinality(users) = 2

-----------------------------------------------------------------------------
(* The search over event details: one request against a table of details.   *)
(* A text is the sequence of its characters.                                *)

MaxQueryLen == 3

(* Query(..., min_length=3) *)
MinQueryLength == 3

(* lower(): SQLite folds the ASCII letters. *)
lower_char(c) ==
    CASE c = "A" -> "a"
      [] c = "B" -> "b"
      [] c = "X" -> "x"
      [] c = "Y" -> "y"
      [] OTHER -> c

lower(s) == [i \in 1..Len(s) |-> lower_char(s[i])]

(* LIKE: % stands for any run of characters, _ for any one character, and   *)
(* no escape character is set.                                              *)
RECURSIVE like_from(_, _, _, _)
like_from(text, pattern, i, j) ==
    IF i > Len(pattern) THEN j > Len(text)
    ELSE IF pattern[i] = "%"
         THEN \/ like_from(text, pattern, i + 1, j)
              \/ j <= Len(text) /\ like_from(text, pattern, i, j + 1)
    ELSE IF pattern[i] = "_"
         THEN j <= Len(text) /\ like_from(text, pattern, i + 1, j + 1)
    ELSE j <= Len(text) /\ pattern[i] = text[j] /\ like_from(text, pattern, i + 1, j + 1)

(* column.ilike(pattern): lower(column) LIKE lower(pattern) *)
ilike(text, pattern) == like_from(lower(text), lower(pattern), 1, 1)

(* search_details: every EventDetail whose detail is ilike %query%. *)
search_details(table, query) ==
    { d \in table : ilike(d.detail, <<"%">> \o query \o <<"%">>) }

(* search_events: the query parameter is validated, then the store is asked. *)
search_events(table, q) ==
    IF Len(q) < MinQueryLength
    THEN [status |-> 422, ret |-> {}, reached |-> FALSE]
    ELSE [status |-> 200, ret |-> search_details(table, q), reached |-> TRUE]

QueryChars == {"a", "b", "B", "_", "%"}

Queries == SeqsUpTo(QueryChars, MaxQueryLen)

(* Details of several events, of months 1 and 2. *)
SearchRows ==
    { [id |-> 1, event_id |-> 1, detail |-> <<"X", "A", "b", "B", "y">>],
      [id |-> 2, event_id |-> 1, detail |-> <<"a", "a", "b">>],
      [id |-> 3, event_id |-> 2, detail |-> <<"a", "_", "b">>],
      [id |-> 4, event_id |-> 2, detail |-> <<"b", "x", "x", "a">>],
      [id |-> 5, event_id |-> 3, detail |-> <<"x", "y">>],
      [id |-> 6, event_id |-> 3, detail |-> <<"a", "%", "b">>] }

SearchEvents == { [id |-> 1, month_id |-> 1, day |-> <<"1">>],
                  [id |-> 2, month_id |-> 1, day |-> <<"1">>],
                  [id |-> 3, month_id |-> 2, day |-> <<"1">>] }

Searched(op, q, status, ret, reached) ==
    [op |-> op, q |-> q, status |-> status, ret |-> ret, reached |-> reached]

NotSearched == Searched("none", <<>>, 0, {}, FALSE)

SearchEventsRoute ==
    /\ last = NotSearched
    /\ \E q \in Queries :
          LET r == search_events(details, q)
          IN  last' = Searched("search", q, r.status, r.ret, r.reached)
    /\ UNCHANGED <<months, events, details, users, now, issued, sessions>>

InitSearch ==
    /\ months = {}
    /\ events = SearchEvents
    /\ details \in SUBSET SearchRows
    /\ users = {}
    /\ now = 0
    /\ issued = {}
    /\ sessions = NoSessions
    /\ last = NotSearched

(* search_events_route of app.py (app.py:358-360): search_details          *)
(* (app.py:300-301) queries the name EventDetail, which is bound to the     *)
(* pydantic schema, and raises.                                             *)
SearchEventsApp ==
    /\ last = NotSearched
    /\ \E q \in Queries :
          last' = IF Len(q) < MinQueryLength THEN Searched("search_app", q, 422, {}, FALSE)
                  ELSE Searched("search_app", q, 500, {}, FALSE)
    /\ UNCHANGED <<months, events, details, users, now, issued, sessions>>

NextSearch == SearchEventsRoute \/ SearchEventsApp

SpecSearch == InitSearch /\ [][NextSearch]_vars

-----------------------------------------------------------------------------
(* Properties of the search, checked under SpecSearch. *)

(* Two characters are the same letter when case is ignored. *)
SameLetter(c, d) ==
    \/ c = d
    \/ {c, d} \in { {"a", "A"}, {"b", "B"}, {"x", "X"}, {"y", "Y"} }

(* The query occurs in the text, character by character, at some position. *)
ContainsIgnoringCase(text, q) ==
    \E k \in 0..(Len(text) - Len(q)) :
        \A i \in 1..Len(q) : SameLetter(text[k + i], q[i])

(* C15: a query of at least 3 characters returns exactly the details whose  *)
(* text contains the query as a literal substring when case is ignored; a   *)
(* shorter query is rejected and does not reach the store.                  *)
C15_SearchLiteralSubstring ==
    last.op = "search" =>
        IF Len(last.q) >= 3
        THEN /\ last.status = 200
             /\ last.ret = { d \in details : ContainsIgnoringCase(d.detail, last.q) }
        ELSE /\ last.status = 422
             /\ ~last.reached

-----------------------------------------------------------------------------
(* The frame of delete_event, checked under Spec. *)

(* C16: a delete_event(id) that returns an existing event leaves the store  *)
(* without that event and without any EventDetail of that event, and with   *)
(* the months, every other event and the details of other events as they    *)
(* were; on a missing id it returns absent and changes nothing.             *)
C16_DeleteEventFrame ==
    [][ \A r \in Busy :
          Finishing(r, "delete_event") =>
              IF last'.found
              THEN /\ months' = months
                   /\ events' = { e \in events : e.id # r.arg }
                   /\ details' = { d \in details : d.event_id # r.arg }
              ELSE UNCHANGED store ]_vars

-----------------------------------------------------------------------------
(* The two authentication paths on the same token: the token goes to the    *)
(* Bearer path in an Authorization header and to the Cookie path in the     *)
(* access_token cookie, bare or behind "Bearer " as login_submit sets it.   *)

Compared(op, token, prefixed, bearer_status, bearer_user, cookie_user) ==
    [op |-> op, token |-> token, prefixed |-> prefixed, bearer_status |-> bearer_status,
     bearer_user |-> bearer_user, cookie_user |-> cookie_user]

NotCompared == Compared("none", EmptyStr, FALSE, 0, {}, {})

BothPaths ==
    /\ last = NotCompared
    /\ \E token \in BodyStrs, prefixed \in BOOLEAN :
          LET value == [token EXCEPT !.prefixes = IF prefixed THEN 1 ELSE 0]
              b == admin_dependency(Header(TRUE, "bearer", token), users, now)
              c == get_current_user_from_cookie(Cookie(TRUE, value), users, now)
          IN  last' = Compared("both", token, prefixed, b.status, b.user, c.user)
    /\ UNCHANGED <<months, events, details, users, now, issued, sessions>>

InitPaths ==
    /\ months = {}
    /\ events = {}
    /\ details = {}
    /\ users \in UserTables
    /\ now \in GateTimes
    /\ issued = {}
    /\ sessions = NoSessions
    /\ last = NotCompared

NextPaths == BothPaths

SpecPaths == InitPaths /\ [][NextPaths]_vars

-----------------------------------------------------------------------------
(* Agreement of the two paths, checked under SpecPaths. *)

(* C17: for every token and every users table the Cookie path yields the    *)
(* user the Bearer path authenticates, and yields no user exactly when the  *)
(* Bearer path rejects.                                                     *)
C17_PathsAgree ==
    last.op = "both" =>
        /\ last.cookie_user = last.bearer_user
        /\ last.cookie_user = {} <=> last.bearer_status = 401

-----------------------------------------------------------------------------
(* Two requests in flight, each in its own session: a delete_month of the   *)
(* first month against a create_event on that month, or against the         *)
(* create_month that creates it.                                            *)

(* The id the first Month row gets. *)
RaceMonthId == NextId({})

RaceMonth == [id |-> RaceMonthId, month_bn |-> "muharram_bn", month_en |-> "Muharram"]

RaceSessions(r) ==
    Only(r) (+) Only(Session("delete_month", "api", "find", RaceMonthId, NoBody,
                             FALSE, NoCred))

InitRace ==
    /\ events = {}
    /\ details = {}
    /\ users = {}
    /\ now = 0
    /\ issued = {}
    /\ last = NoLast
    /\ \/ /\ months = {RaceMonth}
          /\ \E event \in EventInputs :
                sessions = RaceSessions(Session("create_event", "api", "event", RaceMonthId,
                                                EventCreateBody(event), FALSE, NoCred))
       \/ /\ months = {}
          /\ \E month \in MonthInputs :
                /\ Len(month.events) <= MaxEvents
                /\ Sum([k \in 1..Len(month.events) |-> Len(month.events[k].details)],
                       1..Len(month.events)) <= MaxDetails
                /\ sessions = RaceSessions(Session("create_month", "api", "month", 0,
                                                   MonthCreateBody(month), FALSE, NoCred))

NextRace ==
    \/ CmMonth
    \/ CmLoadMonth
    \/ CmEvent
    \/ CmLoadEvent
    \/ CmDetails
    \/ CmRefreshMonth
    \/ CeEvent
    \/ CeLoadEvent
    \/ CeDetails
    \/ CeRefresh
    \/ DmFind
    \/ DmDelete
    \/ DmCascade
    \/ DmCommit

SpecRace == InitRace /\ [][NextRace]_vars

-----------------------------------------------------------------------------
(* The outcome of the race, checked under SpecRace. *)

(* C18: once both requests have finished and the month is gone, no Event    *)
(* has the month's id as month_id and no EventDetail is left of an event of *)
(* that month, where the create_event has inserted its event while the      *)
(* month was there.                                                         *)
C18_NoOrphanAfterRace ==
    ( /\ Busy = {}
      /\ RaceMonthId \notin Ids(months)
      /\ last.found )
    => /\ \A e \in events : e.month_id # RaceMonthId
       /\ \A d \in details :
              \E e \in events : e.id = d.event_id /\ e.month_id # RaceMonthId

====
